---------------------------- MODULE Spec2Model ----------------------------
(***************************************************************************)
(* Model of query-k8s-container-image-history: parseFlags and main of      *)
(* src/cmd/main.go, and NewConfig and the image-audit pipeline of          *)
(* src/internal/docker-image-history/query-cluster.go.  src/main.go is an  *)
(* older main package with the same pipeline, a fixed region list and its  *)
(* own main; the variable program says which of the two runs.              *)
(*                                                                         *)
(* Strings are finite sequences of symbols.  Image references and host     *)
(* patterns are written over an alphabet of name parts ("dkr", ".", ...),  *)
(* layer commands and keywords over an alphabet of letters; a substring of *)
(* the Go string is a contiguous infix of the sequence.                    *)
(***************************************************************************)
EXTENDS Integers, Sequences, FiniteSets, TLC

VARIABLES
    program,                \* the main package that runs: "cmd" or "root"
    flags,                  \* the command line: the value given to each flag
    runPc,                  \* position of main / ProcessAllImagesHistoryForKeywords
    runErr,                 \* the error the run ended with, NoErr if none
    pods,                   \* the pods the cluster lists (pods.Items)
    dockerImageKeyWords,    \* Config.dockerImageKeyWords
    ecrRegions,             \* Config.ecrRegions
    ecrCredentials,         \* Config.ecrCredentials: region -> login blob
    requested,              \* regions NewConfig has asked an ECR token for
    cfgErr,                 \* the error NewConfig returned, NoErr if none
    dockerImages,           \* Config.dockerImages: image ref -> Seq(podDetails)
    offendingDockerImages,  \* Config.offendingDockerImages
    ranged,                 \* keys the range loop has finished with
    image,                  \* the range loop's current key
    stage,                  \* per image: Pending, Pulling, Inspecting, Cleaning, Done
    calls,                  \* the Docker API calls issued so far, in order
    registry,               \* what ImageHistory answers for each image
    history,                \* the last ImageHistory response
    result,                 \* the last checkImageHistoryForKeyWords result
    offendingFile,          \* the match report: NoFile or its lines
    nonECRFile,             \* the non-ECR report: NoFile or its lines
    console,                \* the messages the report passes have printed
    pullPc,                 \* position inside pullImage
    event,                  \* pullImage's "var event *Event": Nil or an Event
    registryAuth,           \* pullOptions.RegistryAuth
    elapsed,                \* time.Now() minus the time the deadline was set
    streamClosed,           \* the pull stream has reached end-of-stream
    stalled,                \* the pull stream delivers nothing more and stays open
    delivered,              \* events decoded from the current stream
    sawTerminal             \* a terminal status event was decoded from it

vars == <<program, flags, runPc, runErr, pods, dockerImageKeyWords, ecrRegions,
          ecrCredentials, requested, cfgErr, dockerImages, offendingDockerImages,
          ranged, image, stage, calls, registry, history, result, offendingFile,
          nonECRFile, console, pullPc, event, registryAuth, elapsed,
          streamClosed, stalled, delivered, sawTerminal>>

---------------------------------------------------------------------------
(* Bounds *)

\* pods in one cluster listing (scan specification)
MaxPods == 3
\* progress events one pull stream delivers before it ends, breaks or stalls
MaxEvents == 2
\* clock ticks observed beyond the pull deadline
MaxOverrun == 1
\* layers in one image history (match specification)
MaxLayers == 3

---------------------------------------------------------------------------
(* Strings *)

\* strings.Contains(s, sub)
Contains(s, sub) ==
    \E i \in 0..(Len(s) - Len(sub)) : SubSeq(s, i + 1, i + Len(sub)) = sub

\* unicode.ToLower on one symbol
LowerSym(ch) ==
    CASE ch = "J" -> "j"
      [] ch = "D" -> "d"
      [] ch = "K" -> "k"
      [] OTHER -> ch

\* strings.ToLower(s)
ToLower(s) == [i \in 1..Len(s) |-> LowerSym(s[i])]

\* the literal "amazonaws.com"
AmazonDomain == <<"amazonaws", ".", "com">>

\* fmt.Sprintf("dkr.ecr.%s.amazonaws.com", region)
RegionHost(region) == <<"dkr", ".", "ecr", ".", region, ".">> \o AmazonDomain

\* the literals "Downloaded newer image" and "Image is up to date"
DownloadedNewer == <<"Downloaded newer image">>
UpToDate == <<"Image is up to date">>

\* the condition of the polling loop's final if
TerminalStatus(status) ==
    Contains(status, DownloadedNewer) \/ Contains(status, UpToDate)

---------------------------------------------------------------------------
(* Values *)

\* a nil *Event; a non-nil pointer is <<e>> with e the Event it points to
Nil == <<>>
\* a nil error
NoErr == "nil"
\* a report file that was never opened
NoFile == [exists |-> FALSE, lines |-> <<>>]

\* AllAWSRegions
AllAWSRegions ==
    <<"af-south-1", "ap-south-1", "eu-north-1", "eu-west-3", "eu-west-2",
      "eu-west-1", "ap-northeast-3", "ap-northeast-2", "ap-northeast-1",
      "ca-central-1", "sa-east-1", "ap-southeast-1", "ap-southeast-2",
      "eu-central-1", "us-east-1", "us-east-2", "us-west-1", "us-west-2">>

Range(s) == {s[i] : i \in 1..Len(s)}

\* image references found in the modelled clusters
ImgEuWest1 == <<"111">> \o <<".">> \o RegionHost("eu-west-1") \o <<"/", "app">>
ImgUsEast1 == <<"111">> \o <<".">> \o RegionHost("us-east-1") \o <<"/", "job">>
ImgNginx   == <<"docker", ".", "io", "/", "nginx">>
ImgRedis   == <<"redis">>
ImgMirror  == <<"111">> \o <<".">> \o RegionHost("eu-west-1") \o <<"/">>
                 \o RegionHost("us-east-1") \o <<"/", "copy">>
ImgBucket  == <<"s3", ".">> \o AmazonDomain \o <<"/", "tool">>

Images == {ImgEuWest1, ImgUsEast1, ImgNginx, ImgRedis, ImgMirror, ImgBucket}


Container(name, img) == [name |-> name, image |-> img]
Pod(name, ns, containers) ==
    [name |-> name, namespace |-> ns, containers |-> containers]

PodWeb    == Pod("web", "prod", <<Container("app", ImgEuWest1),
                                   Container("proxy", ImgNginx)>>)
PodApi    == Pod("api", "prod", <<Container("app", ImgEuWest1)>>)
PodCache  == Pod("cache", "data", <<Container("redis", ImgRedis)>>)
PodJob    == Pod("job", "batch", <<Container("run", ImgUsEast1)>>)
PodTwin   == Pod("twin", "prod", <<Container("a", ImgNginx),
                                   Container("b", ImgNginx)>>)
PodMirror == Pod("mirror", "ops", <<Container("sync", ImgMirror)>>)
PodTool   == Pod("tool", "ops", <<Container("cli", ImgBucket)>>)

PodUniverse == {PodWeb, PodApi, PodCache, PodJob, PodTwin, PodMirror, PodTool}

\* a pod listing holds every pod once
Listings(n) ==
    UNION {{s \in [1..k -> PodUniverse] :
               \A i, j \in 1..k : s[i] = s[j] => i = j} : k \in 0..n}

\* letters of layer commands and keywords
KwJdk      == <<"j", "d", "k">>
KwJdkUpper == <<"J", "D", "K">>
Kw14       == <<"1", "4">>
KwZip      == <<"z", "i", "p">>
KwEmpty    == <<>>

CmdGetJdk   == <<"g", "e", "t", " ", "J", "D", "K">>
CmdJdk14    == <<"j", "d", "k", "-", "1", "4">>
CmdJdkTwice == <<"j", "d", "k", " ", "J", "d", "k">>
CmdCopy     == <<"c", "o", "p", "y">>
CmdNone     == <<>>

Commands == {CmdGetJdk, CmdJdk14, CmdJdkTwice, CmdCopy, CmdNone}

\* keyword lists strings.Split can hand over: never empty, entries may repeat
\* and may be the empty string
KeywordLists ==
    {<<KwJdk>>, <<KwJdkUpper>>, <<KwZip>>, <<KwJdk, Kw14>>, <<KwJdk, KwJdk>>,
     <<KwJdk, KwJdkUpper>>, <<KwEmpty, KwZip>>}

\* a layer of an image history: only CreatedBy is read
Layer(cmd) == [CreatedBy |-> cmd]

Histories(n) == UNION {[1..k -> {Layer(c) : c \in Commands}] : k \in 0..n}

---------------------------------------------------------------------------
(* queryAllContainerImageRefsInCluster *)

\* variant: a key keeps the first tuple only
AppendFirstOnly(m, key, pd) ==
    IF key \in DOMAIN m
    THEN m
    ELSE [k \in DOMAIN m \cup {key} |-> IF k = key THEN <<pd>> ELSE m[k]]

\* c.dockerImages[key] = append(c.dockerImages[key], pd)
AppendTo(m, key, pd) ==
    IF key \in DOMAIN m
    THEN [m EXCEPT ![key] = Append(@, pd)]
    ELSE [k \in DOMAIN m \cup {key} |-> IF k = key THEN <<pd>> ELSE m[k]]

PodDetails(pod, container) ==
    [podName |-> pod.name, containerName |-> container.name,
     namespace |-> pod.namespace]

RECURSIVE ScanContainers(_, _, _)
\* the inner loop over pod.Spec.Containers
ScanContainers(m, pod, containers) ==
    IF containers = <<>>
    THEN m
    ELSE ScanContainers(
             AppendTo(m, Head(containers).image, PodDetails(pod, Head(containers))),
             pod, Tail(containers))

RECURSIVE ScanPods(_, _)
\* the outer loop over pods.Items
ScanPods(m, items) ==
    IF items = <<>>
    THEN m
    ELSE ScanPods(ScanContainers(m, Head(items), Head(items).containers),
                  Tail(items))

---------------------------------------------------------------------------
(* checkImageHistoryForKeyWords *)

EmptyMap == [k \in {} |-> 0]

\* var result offendingDockerImage; result.matchedKeywords = make(map[string]int)
ZeroResult == [matchFound |-> FALSE, imageRef |-> <<>>, matchedKeywords |-> EmptyMap]

\* m[key]++
Incr(m, key) ==
    IF key \in DOMAIN m
    THEN [m EXCEPT ![key] = @ + 1]
    ELSE [k \in DOMAIN m \cup {key} |-> IF k = key THEN 1 ELSE m[k]]

\* variant: the comparison without the two ToLower calls
LayerMatchesCaseSensitive(createdBy, keyword) == Contains(createdBy, keyword)

\* strings.Contains(strings.ToLower(h.CreatedBy), strings.ToLower(keyword))
LayerMatches(createdBy, keyword) ==
    Contains(ToLower(createdBy), ToLower(keyword))

RECURSIVE KeywordLoop(_, _, _, _)
\* the inner loop over c.dockerImageKeyWords
KeywordLoop(res, imageRef, createdBy, keywords) ==
    IF keywords = <<>>
    THEN res
    ELSE KeywordLoop(
             IF LayerMatches(createdBy, Head(keywords))
             THEN [matchFound |-> TRUE,
                   imageRef |-> imageRef,
                   matchedKeywords |-> Incr(res.matchedKeywords, Head(keywords))]
             ELSE res,
             imageRef, createdBy, Tail(keywords))

RECURSIVE HistoryLoop(_, _, _, _)
\* the outer loop over the history layers
HistoryLoop(res, imageRef, layers, keywords) ==
    IF layers = <<>>
    THEN res
    ELSE HistoryLoop(KeywordLoop(res, imageRef, Head(layers).CreatedBy, keywords),
                     imageRef, Tail(layers), keywords)

\* variant: the counts of the image inspected before are carried over
CheckHistoryCarryOver(imageRef, layers, keywords) ==
    HistoryLoop([result EXCEPT !.matchFound = FALSE], imageRef, layers, keywords)

\* the result of checkImageHistoryForKeyWords once ImageHistory has answered
CheckHistory(imageRef, layers, keywords) ==
    HistoryLoop(ZeroResult, imageRef, layers, keywords)

---------------------------------------------------------------------------
(* Environment of the modelled runs *)

\* cluster listings of the pipeline specification
MainClusters ==
    {<<PodWeb, PodApi, PodCache>>, <<PodJob, PodTwin>>, <<PodMirror, PodTool>>, <<>>}

\* values of the ecrRegions flag of the pipeline specification
RegionLists ==
    {<<>>, <<"eu-west-1">>, <<"eu-west-1", "us-east-1">>, <<"us-east-1", "eu-west-1">>}

\* values of the dockerImageKeyWords flag of the pipeline specification
MainKeywordLists == {<<KwJdk>>, <<KwZip, Kw14>>}

\* the image histories of the pipeline specification
RegistryHistory(img) ==
    CASE img = ImgEuWest1 -> <<Layer(CmdGetJdk), Layer(CmdCopy), Layer(CmdJdk14)>>
      [] img = ImgUsEast1 -> <<Layer(CmdCopy)>>
      [] img = ImgNginx   -> <<Layer(CmdCopy), Layer(CmdNone)>>
      [] img = ImgRedis   -> <<Layer(CmdJdk14)>>
      [] img = ImgMirror  -> <<Layer(CmdJdkTwice)>>
      [] OTHER            -> <<>>

\* the login blob NewConfig builds from the token of a region
Credential(region) == <<"AWS", region>>

\* the JSON objects a pull stream delivers; a field that is absent from the
\* object is left as it was in the Event decoded into
Obj(hasStatus, status, hasError, error) ==
    [hasStatus |-> hasStatus, status |-> status,
     hasError |-> hasError, error |-> error]
ObjPulling    == Obj(TRUE, <<"Pulling from repository">>, FALSE, <<>>)
ObjDownloaded == Obj(TRUE, <<"Status: ">> \o DownloadedNewer \o <<" for image">>,
                     FALSE, <<>>)
ObjUpToDate   == Obj(TRUE, <<"Status: ">> \o UpToDate \o <<" for image">>,
                     FALSE, <<>>)
ObjError      == Obj(FALSE, <<>>, TRUE, <<"manifest unknown">>)

StreamObjects == {ObjPulling, ObjDownloaded, ObjUpToDate, ObjError}

\* the zero Event
ZeroEvent == [Status |-> <<>>, Error |-> <<>>]

\* d.Decode(&event) of a JSON object: a nil pointer is allocated, a non-nil one
\* is decoded into
DecodeInto(ptr, obj) ==
    LET base == IF ptr = Nil THEN ZeroEvent ELSE ptr[1]
    IN  <<[Status |-> IF obj.hasStatus THEN obj.status ELSE base.Status,
           Error  |-> IF obj.hasError THEN obj.error ELSE base.Error]>>

\* errors
ErrUsage   == "Usage: query-k8s-container-image-history"
ErrRegions == "One or more parsed AWS regions are invalid"
ErrConfig  == "loading config"
ErrAWSConfig   == "loading AWS config"
ErrToken       == "getting ECR auth token"
ErrTokenDecode == "decoding ECR auth token"
ErrDockerClient == "creating Docker client"
ErrK8sConfig    == "loading k8s config file"
ErrK8sClient    == "creating k8s client set"
ErrList    == "querying for all k8s pods"
ErrRegion  == "unsupported ECR image region detected"
ErrPull    == "pulling image"
ErrTimeout == "timed out (10 minutes) whilst attempting to download"
ErrDecode  == "decoding Docker image pull JSON output"
ErrHistory == "querying image history"
ErrCleanup == "cleaning up local image"
ErrOpen    == "opening file"
ErrWrite   == "writing results"

\* time.Minute * 10, in clock ticks of five minutes
PullTimeout == 2

Call(op, img, auth) == [op |-> op, image |-> img, auth |-> auth]

---------------------------------------------------------------------------
(* parseFlags *)

\* the separator of the two list flags
Comma == ","

RECURSIVE Split(_, _)
\* strings.Split(s, sep) for a separator of one symbol: one piece more than
\* there are separators, empty pieces included
Split(s, sep) ==
    IF \E i \in 1..Len(s) : s[i] = sep
    THEN LET first == CHOOSE i \in 1..Len(s) :
                          s[i] = sep /\ \A j \in 1..(i - 1) : s[j] # sep
         IN  <<SubSeq(s, 1, first - 1)>> \o Split(SubSeq(s, first + 1, Len(s)), sep)
    ELSE <<s>>

RECURSIVE Join(_, _)
\* the flag value that lists the given entries
Join(entries, sep) ==
    IF entries = <<>>
    THEN <<>>
    ELSE IF Len(entries) = 1
         THEN Head(entries)
         ELSE Head(entries) \o <<sep>> \o Join(Tail(entries), sep)

\* an entry of the ecrRegions flag as one region code: the flag is written
\* over region codes and commas, so an entry is one code or the empty string
RegionCode(entry) == IF entry = <<>> THEN "" ELSE entry[1]

\* strings.Split(ecrRegionsFlag, ",")
SplitRegions(flag) ==
    LET entries == Split(flag, Comma)
    IN  [i \in 1..Len(entries) |-> RegionCode(entries[i])]

\* sliceContains(slice, s)
sliceContains(slice, s) == \E i \in 1..Len(slice) : slice[i] = s

RECURSIVE ValidateFirstRegion(_)
\* variant: only the first entry is looked up
ValidateFirstRegion(regions) ==
    IF regions = <<>>
    THEN TRUE
    ELSE sliceContains(AllAWSRegions, Head(regions))

RECURSIVE ValidateAWSRegions(_)
\* ValidateAWSRegions(regions): false at the first entry that is not listed
ValidateAWSRegions(regions) ==
    IF regions = <<>>
    THEN TRUE
    ELSE IF ~sliceContains(AllAWSRegions, Head(regions))
         THEN FALSE
         ELSE ValidateAWSRegions(Tail(regions))

\* the ecrRegions of src/main.go, which has no ecrRegions flag
RootRegions == <<"eu-west-1", "ap-southeast-2">>

\* the two main packages of the repository: src/cmd/main.go and src/main.go
Programs == {"cmd", "root"}

Flags(context, profile, keywords, regions) ==
    [clusterK8sContextName |-> context,
     imagesAccountAWSProfileName |-> profile,
     dockerImageKeyWordsFlag |-> keywords,
     ecrRegionsFlag |-> regions]

\* values of the command line of the start-up specification
ContextFlags == {<<>>, <<"prod">>}
ProfileFlags == {<<>>, <<"images">>}
KeywordFlags == {<<>>, KwJdk, KwZip, Join(<<KwZip, Kw14>>, Comma)}
RegionFlags ==
    {<<>>,
     <<"eu-west-1">>,
     <<"eu-west-1", Comma, "us-east-1">>,
     <<"eu-west-1", Comma, "eu-west-1">>,
     <<"eu-west-1", Comma, "mars-1">>,
     <<"mars-1", Comma, "eu-west-1">>,
     <<"eu-west-1", Comma>>}

---------------------------------------------------------------------------
(* Initial state: flags parsed, main about to call NewConfig *)

Init ==
    /\ program \in Programs
    /\ runPc = "newConfig"
    /\ runErr = NoErr
    /\ pods \in MainClusters
    /\ dockerImageKeyWords \in MainKeywordLists
    /\ ecrRegions \in (IF program = "cmd" THEN RegionLists ELSE {RootRegions})
    /\ flags = Flags(<<"prod">>, <<"images">>, Join(dockerImageKeyWords, Comma),
                     IF program = "cmd"
                     THEN Join([i \in 1..Len(ecrRegions) |-> <<ecrRegions[i]>>], Comma)
                     ELSE <<>>)
    /\ ecrCredentials = EmptyMap
    /\ requested = <<>>
    /\ cfgErr = NoErr
    /\ dockerImages = EmptyMap
    /\ offendingDockerImages = <<>>
    /\ ranged = {}
    /\ image = <<>>
    /\ stage = EmptyMap
    /\ calls = <<>>
    /\ registry = [img \in Images |-> RegistryHistory(img)]
    /\ history = <<>>
    /\ result = ZeroResult
    /\ offendingFile = NoFile
    /\ nonECRFile = NoFile
    /\ console = <<>>
    /\ pullPc = "idle"
    /\ event = Nil
    /\ registryAuth = <<>>
    /\ elapsed = 0
    /\ streamClosed = FALSE
    /\ stalled = FALSE
    /\ delivered = 0
    /\ sawTerminal = FALSE

cfgVars == <<program, flags, pods, dockerImageKeyWords, ecrRegions, registry>>
credVars == <<ecrCredentials, requested, cfgErr>>
pullVars == <<pullPc, event, registryAuth, elapsed, streamClosed, stalled,
              delivered, sawTerminal>>
streamVars == <<elapsed, streamClosed, stalled, delivered, sawTerminal>>
fileVars == <<offendingFile, nonECRFile, console>>
matchVars == <<history, result>>

\* "return err" inside ProcessAllImagesHistoryForKeywords: main ends in log.Fatalln
ReturnErr(err) ==
    /\ runPc' = "error"
    /\ runErr' = err

---------------------------------------------------------------------------
(* NewConfig *)

\* what can fail for one region, and after the region loop
RegionErrors == {ErrAWSConfig, ErrToken, ErrTokenDecode}
ClientErrors == {ErrDockerClient, ErrK8sConfig, ErrK8sClient}

\* cfg.ecrCredentials after the first n passes of the region loop
CredentialsAfter(regions, n) ==
    [r \in {regions[i] : i \in 1..n} |-> Credential(r)]

\* "return nil, err" in NewConfig and what main does with it: the Config
\* built so far is dropped; src/cmd/main.go ends in log.Fatalf, src/main.go
\* evaluates cfg.dockerClient on the nil Config before it looks at err
ConfigFailed(err, asked) ==
    /\ cfgErr' = err
    /\ requested' = asked
    /\ UNCHANGED ecrCredentials
    /\ IF program = "root"
       THEN runPc' = "panic" /\ UNCHANGED runErr
       ELSE runPc' = "fatal" /\ runErr' = ErrConfig

NewConfig ==
    /\ runPc = "newConfig"
    /\ \/ \E n \in 1..Len(ecrRegions) : \E err \in RegionErrors :
             ConfigFailed(err, SubSeq(ecrRegions, 1,
                                      IF err = ErrAWSConfig THEN n - 1 ELSE n))
       \/ \E err \in ClientErrors : ConfigFailed(err, ecrRegions)
       \/ /\ ecrCredentials' = CredentialsAfter(ecrRegions, Len(ecrRegions))
          /\ requested' = ecrRegions
          /\ runPc' = "scan"
          /\ UNCHANGED <<runErr, cfgErr>>
    /\ UNCHANGED <<cfgVars, dockerImages, offendingDockerImages, ranged, image,
                   stage, calls, matchVars, fileVars, pullVars>>

---------------------------------------------------------------------------
(* queryAllContainerImageRefsInCluster, called first by the run *)

QueryAllContainerImageRefsInCluster ==
    /\ runPc = "scan"
    /\ \/ /\ ReturnErr(ErrList)
          /\ UNCHANGED <<dockerImages, stage>>
       \/ /\ dockerImages' = ScanPods(dockerImages, pods)
          /\ stage' = [img \in DOMAIN dockerImages' |-> "Pending"]
          /\ runPc' = "range"
          /\ UNCHANGED runErr
    /\ UNCHANGED <<cfgVars, credVars, offendingDockerImages, ranged, image,
                   calls, matchVars, fileVars, pullVars>>

---------------------------------------------------------------------------
(* The range loop of ProcessAllImagesHistoryForKeywords *)

\* variant: the loop may take a key it has already finished with
RangeNextAnyKey(img) ==
    /\ runPc = "range"
    /\ img \in DOMAIN dockerImages
    /\ ranged # DOMAIN dockerImages
    /\ image' = img
    /\ stage' = [stage EXCEPT ![img] = "Pulling"]
    /\ runPc' = "pull"
    /\ pullPc' = "select"
    /\ event' = Nil
    /\ registryAuth' = <<>>
    /\ UNCHANGED <<runErr, cfgVars, credVars, dockerImages,
                   offendingDockerImages, ranged, calls, matchVars, fileVars,
                   streamVars>>

\* the loop takes a key it has not visited yet, in no specified order, and
\* calls pullImage on it
RangeNext(img) ==
    /\ runPc = "range"
    /\ img \in DOMAIN dockerImages \ ranged
    /\ image' = img
    /\ stage' = [stage EXCEPT ![img] = "Pulling"]
    /\ runPc' = "pull"
    /\ pullPc' = "select"
    /\ event' = Nil
    /\ registryAuth' = <<>>
    /\ UNCHANGED <<runErr, cfgVars, credVars, dockerImages,
                   offendingDockerImages, ranged, calls, matchVars, fileVars,
                   streamVars>>

\* variant: the loop may end while keys are unvisited
RangeDoneEarly ==
    /\ runPc = "range"
    /\ runPc' = "outputOffending"
    /\ UNCHANGED <<runErr, cfgVars, credVars, dockerImages,
                   offendingDockerImages, ranged, image, stage, calls, matchVars,
                   fileVars, pullVars>>

\* every key was visited: the loop ends and the reports are written
RangeDone ==
    /\ runPc = "range"
    /\ ranged = DOMAIN dockerImages
    /\ runPc' = "outputOffending"
    /\ UNCHANGED <<runErr, cfgVars, credVars, dockerImages,
                   offendingDockerImages, ranged, image, stage, calls, matchVars,
                   fileVars, pullVars>>

---------------------------------------------------------------------------
(* pullImage *)

RECURSIVE RegionLoop(_, _, _, _)
\* the loop over c.ecrRegions: every matching region overwrites RegistryAuth
RegionLoop(sel, imageReference, regions, creds) ==
    IF regions = <<>>
    THEN sel
    ELSE RegionLoop(
             IF Contains(imageReference, RegionHost(Head(regions)))
             THEN [auth |-> creds[Head(regions)], foundRegion |-> TRUE]
             ELSE sel,
             imageReference, Tail(regions), creds)

\* variant: the first configured region's credential, whatever the reference
SelectAuthAnyRegion(imageReference, regions, creds) ==
    IF regions = <<>>
    THEN [auth |-> <<>>, foundRegion |-> FALSE]
    ELSE [auth |-> creds[Head(regions)], foundRegion |-> TRUE]

\* RegistryAuth and foundRegion after the loop ("" and false before it)
SelectAuth(imageReference, regions, creds) ==
    RegionLoop([auth |-> <<>>, foundRegion |-> FALSE], imageReference, regions, creds)

\* "return err" inside pullImage: the run returns it in turn
PullReturnErr(err) ==
    /\ pullPc' = "idle"
    /\ ReturnErr(err)

\* the credential selection at the head of pullImage
SelectCredential ==
    /\ runPc = "pull"
    /\ pullPc = "select"
    /\ IF Contains(image, AmazonDomain)
       THEN LET sel == SelectAuth(image, ecrRegions, ecrCredentials)
            IN  IF ~sel.foundRegion
                THEN /\ PullReturnErr(ErrRegion)
                     /\ UNCHANGED registryAuth
                ELSE /\ registryAuth' = sel.auth
                     /\ pullPc' = "request"
                     /\ UNCHANGED <<runPc, runErr>>
       ELSE /\ pullPc' = "request"
            /\ UNCHANGED <<registryAuth, runPc, runErr>>
    /\ UNCHANGED <<cfgVars, credVars, dockerImages, offendingDockerImages,
                   ranged, image, stage, calls, matchVars, fileVars, event,
                   streamVars>>

\* c.dockerClient.ImagePull, then the decoder and the deadline are set up
ImagePull ==
    /\ runPc = "pull"
    /\ pullPc = "request"
    /\ calls' = Append(calls, Call("ImagePull", image, registryAuth))
    /\ \/ /\ PullReturnErr(ErrPull)
          /\ UNCHANGED streamVars
       \/ /\ pullPc' = "loopTop"
          /\ elapsed' = 0
          /\ streamClosed' = FALSE
          /\ stalled' = FALSE
          /\ delivered' = 0
          /\ sawTerminal' = FALSE
          /\ UNCHANGED <<runPc, runErr>>
    /\ UNCHANGED <<cfgVars, credVars, dockerImages, offendingDockerImages,
                   ranged, image, stage, matchVars, fileVars, event, registryAuth>>

\* the head of the polling loop: time.Now().After(timeout)
LoopTop ==
    /\ runPc = "pull"
    /\ pullPc = "loopTop"
    /\ IF elapsed > PullTimeout
       THEN PullReturnErr(ErrTimeout)
       ELSE /\ pullPc' = "decode"
            /\ UNCHANGED <<runPc, runErr>>
    /\ UNCHANGED <<cfgVars, credVars, dockerImages, offendingDockerImages,
                   ranged, image, stage, calls, matchVars, fileVars, event,
                   registryAuth, streamVars>>

\* d.Decode(&event) returns with a JSON object of the stream
DecodeObject(obj) ==
    /\ runPc = "pull"
    /\ pullPc = "decode"
    /\ ~stalled
    /\ ~streamClosed
    /\ delivered < MaxEvents
    /\ event' = DecodeInto(event, obj)
    /\ delivered' = delivered + 1
    /\ sawTerminal' = (sawTerminal \/ (obj.hasStatus /\ TerminalStatus(obj.status)))
    /\ pullPc' = "check"
    /\ UNCHANGED <<runPc, runErr, cfgVars, credVars, dockerImages,
                   offendingDockerImages, ranged, image, stage, calls, matchVars,
                   fileVars, registryAuth, elapsed, streamClosed, stalled>>

\* d.Decode(&event) returns io.EOF, which the loop ignores; event is untouched
DecodeEOF ==
    /\ runPc = "pull"
    /\ pullPc = "decode"
    /\ ~stalled
    /\ streamClosed' = TRUE
    /\ pullPc' = "check"
    /\ UNCHANGED <<runPc, runErr, cfgVars, credVars, dockerImages,
                   offendingDockerImages, ranged, image, stage, calls, matchVars,
                   fileVars, event, registryAuth, elapsed, stalled, delivered,
                   sawTerminal>>

\* variant: an error other than io.EOF is ignored as io.EOF is, and the loop
\* goes on to read event.Status
DecodeErrorIgnored ==
    /\ runPc = "pull"
    /\ pullPc = "decode"
    /\ ~stalled
    /\ ~streamClosed
    /\ pullPc' = "check"
    /\ UNCHANGED <<runPc, runErr, cfgVars, credVars, dockerImages,
                   offendingDockerImages, ranged, image, stage, calls, matchVars,
                   fileVars, event, registryAuth, streamVars>>

\* d.Decode(&event) returns an error other than io.EOF: pullImage returns it
DecodeError ==
    /\ runPc = "pull"
    /\ pullPc = "decode"
    /\ ~stalled
    /\ ~streamClosed
    /\ PullReturnErr(ErrDecode)
    /\ UNCHANGED <<cfgVars, credVars, dockerImages, offendingDockerImages,
                   ranged, image, stage, calls, matchVars, fileVars, event,
                   registryAuth, streamVars>>

\* the stream delivers nothing more and is not closed: the read inside
\* d.Decode blocks
Stall ==
    /\ runPc = "pull"
    /\ pullPc = "decode"
    /\ ~stalled
    /\ ~streamClosed
    /\ stalled' = TRUE
    /\ UNCHANGED <<runPc, runErr, cfgVars, credVars, dockerImages,
                   offendingDockerImages, ranged, image, stage, calls, matchVars,
                   fileVars, pullPc, event, registryAuth, elapsed, streamClosed,
                   delivered, sawTerminal>>

\* the final if of the loop: event.Status is read through the pointer
CheckStatus ==
    /\ runPc = "pull"
    /\ pullPc = "check"
    /\ IF event = Nil
       THEN /\ pullPc' = "crashed"
            /\ runPc' = "panic"
            /\ UNCHANGED <<runErr, stage>>
       ELSE IF TerminalStatus(event[1].Status)
            THEN /\ pullPc' = "idle"
                 /\ runPc' = "inspect"
                 /\ stage' = [stage EXCEPT ![image] = "Inspecting"]
                 /\ UNCHANGED runErr
            ELSE /\ pullPc' = "loopTop"
                 /\ UNCHANGED <<runPc, runErr, stage>>
    /\ UNCHANGED <<cfgVars, credVars, dockerImages, offendingDockerImages,
                   ranged, image, calls, matchVars, fileVars, event, registryAuth,
                   streamVars>>

\* the wall clock advances while pullImage is in its loop
Tick ==
    /\ runPc = "pull"
    /\ pullPc \in {"loopTop", "decode", "check"}
    /\ elapsed < PullTimeout + 1 + MaxOverrun
    /\ elapsed' = elapsed + 1
    /\ UNCHANGED <<runPc, runErr, cfgVars, credVars, dockerImages,
                   offendingDockerImages, ranged, image, stage, calls, matchVars,
                   fileVars, pullPc, event, registryAuth, streamClosed, stalled,
                   delivered, sawTerminal>>

---------------------------------------------------------------------------
(* checkImageHistoryForKeyWords and the append of its result *)

\* variant: the append without the matchFound test
AppendAlways(collection, res) == Append(collection, res)

\* if result.matchFound { c.offendingDockerImages = append(..., result) }
AppendIfMatch(collection, res) ==
    IF res.matchFound THEN Append(collection, res) ELSE collection

\* variant: the cleanup is called for a matched image only
CheckImageHistorySkipCleanup ==
    /\ runPc = "inspect"
    /\ calls' = Append(calls, Call("ImageHistory", image, <<>>))
    /\ \/ /\ ReturnErr(ErrHistory)
          /\ UNCHANGED <<matchVars, offendingDockerImages, stage, ranged>>
       \/ /\ history' = registry[image]
          /\ result' = CheckHistory(image, history', dockerImageKeyWords)
          /\ offendingDockerImages' = AppendIfMatch(offendingDockerImages, result')
          /\ IF result'.matchFound
             THEN /\ stage' = [stage EXCEPT ![image] = "Cleaning"]
                  /\ runPc' = "cleanup"
                  /\ UNCHANGED ranged
             ELSE /\ stage' = [stage EXCEPT ![image] = "Done"]
                  /\ ranged' = ranged \cup {image}
                  /\ runPc' = "range"
          /\ UNCHANGED runErr
    /\ UNCHANGED <<cfgVars, credVars, dockerImages, image, fileVars, pullVars>>

CheckImageHistoryForKeyWords ==
    /\ runPc = "inspect"
    /\ calls' = Append(calls, Call("ImageHistory", image, <<>>))
    /\ \/ /\ ReturnErr(ErrHistory)
          /\ UNCHANGED <<matchVars, offendingDockerImages, stage>>
       \/ /\ history' = registry[image]
          /\ result' = CheckHistory(image, history', dockerImageKeyWords)
          /\ offendingDockerImages' = AppendIfMatch(offendingDockerImages, result')
          /\ stage' = [stage EXCEPT ![image] = "Cleaning"]
          /\ runPc' = "cleanup"
          /\ UNCHANGED runErr
    /\ UNCHANGED <<cfgVars, credVars, dockerImages, ranged, image, fileVars,
                   pullVars>>

---------------------------------------------------------------------------
(* cleanupImage *)

\* variant: a failed removal is ignored and the loop goes on
CleanupImageBestEffort ==
    /\ runPc = "cleanup"
    /\ calls' = Append(calls, Call("ImageRemove", image, <<>>))
    /\ \/ /\ ranged' = ranged \cup {image}
          /\ runPc' = "range"
          /\ UNCHANGED <<stage, runErr>>
       \/ /\ stage' = [stage EXCEPT ![image] = "Done"]
          /\ ranged' = ranged \cup {image}
          /\ runPc' = "range"
          /\ UNCHANGED runErr
    /\ UNCHANGED <<cfgVars, credVars, dockerImages, offendingDockerImages,
                   image, matchVars, fileVars, pullVars>>

CleanupImage ==
    /\ runPc = "cleanup"
    /\ calls' = Append(calls, Call("ImageRemove", image, <<>>))
    /\ \/ /\ ReturnErr(ErrCleanup)
          /\ UNCHANGED <<stage, ranged>>
       \/ /\ stage' = [stage EXCEPT ![image] = "Done"]
          /\ ranged' = ranged \cup {image}
          /\ runPc' = "range"
          /\ UNCHANGED runErr
    /\ UNCHANGED <<cfgVars, credVars, dockerImages, offendingDockerImages,
                   image, matchVars, fileVars, pullVars>>

---------------------------------------------------------------------------
(* The reports *)

\* c.dockerImages[key]: nil for a key the map does not hold
Lookup(m, key) == IF key \in DOMAIN m THEN m[key] ELSE <<>>

\* one line of the match report: the reference, then one group per tuple
OffendingLine(i) ==
    LET details == Lookup(dockerImages, i.imageRef)
    IN  [imageRef |-> i.imageRef,
         groups |-> [k \in 1..Len(details) |->
                        [podName |-> details[k].podName,
                         containerName |-> details[k].containerName,
                         namespace |-> details[k].namespace,
                         matchedKeywords |-> i.matchedKeywords]]]

OffendingLines ==
    [k \in 1..Len(offendingDockerImages) |-> OffendingLine(offendingDockerImages[k])]

\* one line of the non-ECR report
NonECRLine(img) ==
    LET details == dockerImages[img]
    IN  [imageRef |-> img,
         groups |-> [k \in 1..Len(details) |->
                        [podName |-> details[k].podName,
                         containerName |-> details[k].containerName,
                         namespace |-> details[k].namespace]]]

\* variant: a line for every key of the mapping
NonECRKeysUnfiltered == DOMAIN dockerImages

\* the keys outputNonECRImages writes a line for
NonECRKeys == {img \in DOMAIN dockerImages : ~Contains(img, AmazonDomain)}

\* the orders in which a range over a map can visit a set of keys
Orders(S) ==
    {s \in [1..Cardinality(S) -> S] : \A i, j \in DOMAIN s : s[i] = s[j] => i = j}

\* the messages of the two report passes
NoticeOffendingWritten == "Offending image results written to"
NoticeNothingToOutput  == "No images matched keywords. Nothing to output."
NoticeNonECRWritten    == "Non ECR based image results written to"

\* variant: the match report is opened whatever the collection holds
OutputOffendingImagesAlwaysOpen ==
    /\ runPc = "outputOffending"
    /\ \/ /\ ReturnErr(ErrOpen)
          /\ UNCHANGED <<offendingFile, console>>
       \/ /\ offendingFile' = [exists |-> TRUE, lines |-> OffendingLines]
          /\ console' = Append(console, NoticeOffendingWritten)
          /\ runPc' = "outputNonECR"
          /\ UNCHANGED runErr
       \/ \E k \in 0..(Len(offendingDockerImages) - 1) :
             /\ offendingFile' =
                    [exists |-> TRUE, lines |-> SubSeq(OffendingLines, 1, k)]
             /\ ReturnErr(ErrWrite)
             /\ UNCHANGED console
    /\ UNCHANGED <<cfgVars, credVars, dockerImages, offendingDockerImages,
                   ranged, image, stage, calls, matchVars, nonECRFile, pullVars>>

OutputOffendingImages ==
    /\ runPc = "outputOffending"
    /\ IF Len(offendingDockerImages) > 0
       THEN \/ /\ ReturnErr(ErrOpen)
               /\ UNCHANGED <<offendingFile, console>>
            \/ /\ offendingFile' = [exists |-> TRUE, lines |-> OffendingLines]
               /\ console' = Append(console, NoticeOffendingWritten)
               /\ runPc' = "outputNonECR"
               /\ UNCHANGED runErr
            \/ \E k \in 0..(Len(offendingDockerImages) - 1) :
                  /\ offendingFile' =
                         [exists |-> TRUE, lines |-> SubSeq(OffendingLines, 1, k)]
                  /\ ReturnErr(ErrWrite)
                  /\ UNCHANGED console
       ELSE /\ console' = Append(console, NoticeNothingToOutput)
            /\ runPc' = "outputNonECR"
            /\ UNCHANGED <<runErr, offendingFile>>
    /\ UNCHANGED <<cfgVars, credVars, dockerImages, offendingDockerImages,
                   ranged, image, stage, calls, matchVars, nonECRFile, pullVars>>

OutputNonECRImages ==
    /\ runPc = "outputNonECR"
    /\ \/ /\ ReturnErr(ErrOpen)
          /\ UNCHANGED <<nonECRFile, console>>
       \/ \E order \in Orders(NonECRKeys) :
             /\ nonECRFile' =
                    [exists |-> TRUE,
                     lines |-> [k \in 1..Len(order) |-> NonECRLine(order[k])]]
             /\ console' = Append(console, NoticeNonECRWritten)
             /\ runPc' = "done"
             /\ UNCHANGED runErr
       \/ \E order \in Orders(NonECRKeys) : \E n \in 0..(Len(order) - 1) :
             /\ nonECRFile' =
                    [exists |-> TRUE,
                     lines |-> [k \in 1..n |-> NonECRLine(order[k])]]
             /\ ReturnErr(ErrWrite)
             /\ UNCHANGED console
    /\ UNCHANGED <<cfgVars, credVars, dockerImages, offendingDockerImages,
                   ranged, image, stage, calls, matchVars, offendingFile, pullVars>>

---------------------------------------------------------------------------
(* The pipeline *)

\* the steps of the single control thread
ProgramStep ==
    \/ NewConfig
    \/ QueryAllContainerImageRefsInCluster
    \/ \E img \in Images : RangeNext(img)
    \/ RangeDone
    \/ SelectCredential
    \/ ImagePull
    \/ LoopTop
    \/ \E obj \in StreamObjects : DecodeObject(obj)
    \/ DecodeEOF
    \/ DecodeError
    \/ CheckStatus
    \/ CheckImageHistoryForKeyWords
    \/ CleanupImage
    \/ OutputOffendingImages
    \/ OutputNonECRImages

Next ==
    \/ ProgramStep
    \/ Stall
    \/ Tick

Spec == Init /\ [][Next]_vars

\* the control thread runs whenever it can and the clock advances; what the
\* pull stream delivers, and whether it delivers, is left to the daemon
FairSpec == Spec /\ WF_vars(ProgramStep) /\ WF_vars(Tick)

---------------------------------------------------------------------------
(* The run from its start: main calls parseFlags on the command line, then  *)
(* NewConfig and the pipeline, on one cluster                               *)

\* the flags the program defines: src/main.go has no ecrRegions flag
RegionFlagsOf(prog) == IF prog = "cmd" THEN RegionFlags ELSE {<<>>}

InitStartup ==
    /\ program \in Programs
    /\ flags \in {Flags(c, p, k, r) : c \in ContextFlags, p \in ProfileFlags,
                                      k \in KeywordFlags, r \in RegionFlagsOf(program)}
    /\ runPc = "parseFlags"
    /\ runErr = NoErr
    /\ pods = <<PodWeb, PodApi, PodCache>>
    /\ dockerImageKeyWords = <<>>
    /\ ecrRegions = IF program = "cmd" THEN <<>> ELSE RootRegions
    /\ ecrCredentials = EmptyMap
    /\ requested = <<>>
    /\ cfgErr = NoErr
    /\ dockerImages = EmptyMap
    /\ offendingDockerImages = <<>>
    /\ ranged = {}
    /\ image = <<>>
    /\ stage = EmptyMap
    /\ calls = <<>>
    /\ registry = [img \in Images |-> RegistryHistory(img)]
    /\ history = <<>>
    /\ result = ZeroResult
    /\ offendingFile = NoFile
    /\ nonECRFile = NoFile
    /\ console = <<>>
    /\ pullPc = "idle"
    /\ event = Nil
    /\ registryAuth = <<>>
    /\ elapsed = 0
    /\ streamClosed = FALSE
    /\ stalled = FALSE
    /\ delivered = 0
    /\ sawTerminal = FALSE

\* log.Fatalln / log.Fatalf in parseFlags
Fatal(err) ==
    /\ runPc' = "fatal"
    /\ runErr' = err

ParseFlags ==
    /\ runPc = "parseFlags"
    /\ LET keywords == IF Len(flags.dockerImageKeyWordsFlag) > 0
                       THEN Split(flags.dockerImageKeyWordsFlag, Comma)
                       ELSE dockerImageKeyWords
           given == program = "cmd" /\ Len(flags.ecrRegionsFlag) > 0
           regions == IF given THEN SplitRegions(flags.ecrRegionsFlag) ELSE ecrRegions
       IN  /\ dockerImageKeyWords' = keywords
           /\ IF \/ Len(flags.clusterK8sContextName) = 0
                 \/ Len(flags.imagesAccountAWSProfileName) = 0
                 \/ Len(keywords) = 0
              THEN /\ Fatal(ErrUsage)
                   /\ UNCHANGED ecrRegions
              ELSE /\ ecrRegions' = regions
                   /\ IF given /\ ~ValidateAWSRegions(regions)
                      THEN Fatal(ErrRegions)
                      ELSE runPc' = "newConfig" /\ UNCHANGED runErr
    /\ UNCHANGED <<program, flags, pods, registry, credVars, dockerImages,
                   offendingDockerImages, ranged, image, stage, calls, matchVars,
                   fileVars, pullVars>>

NextStartup ==
    \/ ParseFlags
    \/ Next

SpecStartup == InitStartup /\ [][NextStartup]_vars

---------------------------------------------------------------------------
(* The cluster scan on its own, over every listing of up to MaxPods pods *)

InitScan ==
    /\ runPc = "scan"
    /\ runErr = NoErr
    /\ program = "cmd"
    /\ flags = Flags(<<"prod">>, <<"images">>, KwJdk, <<>>)
    /\ pods \in Listings(MaxPods)
    /\ dockerImageKeyWords = <<KwJdk>>
    /\ ecrRegions = <<>>
    /\ ecrCredentials = EmptyMap
    /\ requested = <<>>
    /\ cfgErr = NoErr
    /\ dockerImages = EmptyMap
    /\ offendingDockerImages = <<>>
    /\ ranged = {}
    /\ image = <<>>
    /\ stage = EmptyMap
    /\ calls = <<>>
    /\ registry = [img \in Images |-> RegistryHistory(img)]
    /\ history = <<>>
    /\ result = ZeroResult
    /\ offendingFile = NoFile
    /\ nonECRFile = NoFile
    /\ console = <<>>
    /\ pullPc = "idle"
    /\ event = Nil
    /\ registryAuth = <<>>
    /\ elapsed = 0
    /\ streamClosed = FALSE
    /\ stalled = FALSE
    /\ delivered = 0
    /\ sawTerminal = FALSE

NextScan == QueryAllContainerImageRefsInCluster

SpecScan == InitScan /\ [][NextScan]_vars

---------------------------------------------------------------------------
(* checkImageHistoryForKeyWords on its own, over every history of up to    *)
(* MaxLayers layers and every keyword list: the run has pulled one image    *)
(* and is about to inspect it                                               *)

InitMatch ==
    /\ runPc = "inspect"
    /\ runErr = NoErr
    /\ program = "cmd"
    /\ pods = <<PodCache>>
    /\ dockerImageKeyWords \in KeywordLists
    /\ flags = Flags(<<"prod">>, <<"images">>, Join(dockerImageKeyWords, Comma), <<>>)
    /\ ecrRegions = <<>>
    /\ ecrCredentials = EmptyMap
    /\ requested = <<>>
    /\ cfgErr = NoErr
    /\ dockerImages = ScanPods(EmptyMap, pods)
    /\ offendingDockerImages = <<>>
    /\ ranged = {}
    /\ image = ImgRedis
    /\ stage = [img \in {ImgRedis} |-> "Inspecting"]
    /\ calls = <<Call("ImagePull", ImgRedis, <<>>)>>
    /\ \E h \in Histories(MaxLayers) : registry = [img \in Images |-> h]
    /\ history = <<>>
    /\ result = ZeroResult
    /\ offendingFile = NoFile
    /\ nonECRFile = NoFile
    /\ console = <<>>
    /\ pullPc = "idle"
    /\ event = <<[Status |-> ObjUpToDate.status, Error |-> <<>>]>>
    /\ registryAuth = <<>>
    /\ elapsed = 0
    /\ streamClosed = FALSE
    /\ stalled = FALSE
    /\ delivered = 1
    /\ sawTerminal = TRUE

NextMatch == CheckImageHistoryForKeyWords

SpecMatch == InitMatch /\ [][NextMatch]_vars

---------------------------------------------------------------------------
(* Vocabulary of the properties *)

\* the operations issued for one image, in order
OpsOf(img) ==
    LET Mine(c) == c.image = img
        mine == SelectSeq(calls, Mine)
    IN  [k \in 1..Len(mine) |-> mine[k].op]

LastCall == calls[Len(calls)]

\* pullImage has opened a stream and is over: it returned or it crashed
PullEnded ==
    /\ pullPc \in {"idle", "crashed"}
    /\ calls # <<>>
    /\ LastCall.op = "ImagePull"
    /\ runErr # ErrPull

PullReturnedSuccess == PullEnded /\ runPc = "inspect"

\* the errors of the three stages of an image
StageErrors == {ErrRegion, ErrPull, ErrTimeout, ErrDecode, ErrHistory, ErrCleanup}

StageSteps ==
    {<<"Pending", "Pulling">>, <<"Pulling", "Inspecting">>,
     <<"Inspecting", "Cleaning">>, <<"Cleaning", "Done">>}

\* the range loop is over
LoopOver ==
    \/ runPc \in {"outputOffending", "outputNonECR", "done"}
    \/ runPc = "error" /\ runErr \in {ErrOpen, ErrWrite}

\* two symbols are the same letter, whatever their case
SameLetter(a, b) ==
    \/ a = b
    \/ {a, b} \in {{"j", "J"}, {"d", "D"}, {"k", "K"}}

\* sub occurs in s, ignoring case
ContainsFold(s, sub) ==
    \E off \in 0..(Len(s) - Len(sub)) :
        \A j \in 1..Len(sub) : SameLetter(s[off + j], sub[j])

\* the layers of a history whose command text holds a keyword, ignoring case
MatchingLayers(layers, keyword) ==
    {i \in 1..Len(layers) : ContainsFold(layers[i].CreatedBy, keyword)}

\* the image has a layer that holds a configured keyword
Matched(img) ==
    \E k \in 1..Len(dockerImageKeyWords) :
        MatchingLayers(registry[img], dockerImageKeyWords[k]) # {}

InCollection(img) ==
    \E i \in 1..Len(offendingDockerImages) : offendingDockerImages[i].imageRef = img

InReport(img) ==
    \E i \in 1..Len(offendingFile.lines) : offendingFile.lines[i].imageRef = img

CleanupFailed(img) == runErr = ErrCleanup /\ image = img

---------------------------------------------------------------------------
(* C1 *)

\* C1: pullImage returns success exactly when a terminal status event was
\* decoded, and a pull whose stream never delivered one ends with the timeout
\* error, after the deadline.  (A decode error returned by a broken stream is
\* not held against the claim.)
C1_SuccessOnTerminalElseTimeout ==
    PullEnded =>
        /\ (runPc = "inspect") <=> sawTerminal
        /\ (~sawTerminal /\ runErr # ErrDecode) =>
               (runErr = ErrTimeout /\ elapsed > PullTimeout)

---------------------------------------------------------------------------
(* C2 *)

\* C2: every call of pullImage that has entered its polling loop eventually
\* returns, whatever the stream does.
C2_PullEventuallyReturns ==
    [](pullPc \in {"loopTop", "decode", "check"} => <>(pullPc = "idle"))

---------------------------------------------------------------------------
(* C3 *)

\* the stage of every image agrees with the operations issued for it
StageMatchesCalls ==
    \A img \in DOMAIN stage :
        CASE stage[img] = "Pending" -> OpsOf(img) = <<>>
          [] stage[img] = "Pulling" -> OpsOf(img) \in {<<>>, <<"ImagePull">>}
          [] stage[img] = "Inspecting" ->
                \/ OpsOf(img) = <<"ImagePull">>
                \/ OpsOf(img) = <<"ImagePull", "ImageHistory">> /\ runErr = ErrHistory
          [] stage[img] = "Cleaning" ->
                \/ OpsOf(img) = <<"ImagePull", "ImageHistory">>
                \/ /\ OpsOf(img) = <<"ImagePull", "ImageHistory", "ImageRemove">>
                   /\ runErr = ErrCleanup
          [] stage[img] = "Done" ->
                OpsOf(img) = <<"ImagePull", "ImageHistory", "ImageRemove">>
          [] OTHER -> FALSE

\* a stage error ends the run at the stage that failed, with no report written
StageErrorIsTerminal ==
    runErr \in StageErrors =>
        /\ runPc = "error"
        /\ offendingFile = NoFile
        /\ nonECRFile = NoFile
        /\ stage[image] =
              (CASE runErr = ErrHistory -> "Inspecting"
                 [] runErr = ErrCleanup -> "Cleaning"
                 [] OTHER -> "Pulling")
        /\ \A img \in DOMAIN stage \ {image} : stage[img] \in {"Pending", "Done"}

\* a step changes the stage of an image to the next stage only
StageStepsOnly ==
    \A img \in DOMAIN stage \cap DOMAIN stage' :
        stage'[img] # stage[img] => (<<stage[img], stage'[img]>> \in StageSteps)

\* an inspection that returns without error is followed by the cleanup
CleaningAfterInspection ==
    (runPc = "inspect" /\ runPc' \notin {"inspect", "error"}) =>
        (runPc' = "cleanup" /\ stage'[image] = "Cleaning")

\* once the run has ended in an error or a crash nothing more happens
NothingAfterTheEnd ==
    runPc \in {"error", "panic", "fatal"} =>
        UNCHANGED <<runPc, runErr, stage, calls, offendingFile, nonECRFile, console>>

\* C3: every image moves only along Pending -> Pulling -> Inspecting ->
\* Cleaning -> Done, one stage at a time, and enters Cleaning after every
\* inspection that succeeded, matched or not; a failed stage ends the run in
\* the error state with the error returned, after which no operation is
\* issued, no stage changes and no report is written.
C3_StagesInOrderAndErrorsTerminal ==
    /\ [][StageStepsOnly]_vars
    /\ [][CleaningAfterInspection]_vars
    /\ [][NothingAfterTheEnd]_vars
    /\ [](StageMatchesCalls /\ StageErrorIsTerminal)

\* a cleanup failed after one image was done and before another was started
C3_Witness ==
    /\ runErr = ErrCleanup
    /\ \E img \in DOMAIN stage : stage[img] = "Done"
    /\ \E img \in DOMAIN stage : stage[img] = "Pending"

---------------------------------------------------------------------------
(* C4 *)

InFlight == {img \in DOMAIN stage : stage[img] \in {"Pulling", "Inspecting", "Cleaning"}}

\* C4: at most one image is between the start of its pull and the end of its
\* cleanup; a pull that is not the first follows the completed removal of
\* another image, a history query follows the pull of its image and a removal
\* the history query of its image; once the loop is over, every key of the
\* image mapping was pulled once, inspected once and removed once.
C4_StrictlySequential ==
    /\ Cardinality(InFlight) <= 1
    /\ \A k \in 1..Len(calls) :
          CASE calls[k].op = "ImagePull" ->
                  k > 1 => /\ calls[k - 1].op = "ImageRemove"
                           /\ calls[k - 1].image # calls[k].image
                           /\ stage[calls[k - 1].image] = "Done"
            [] calls[k].op = "ImageHistory" ->
                  k > 1 /\ calls[k - 1] = Call("ImagePull", calls[k].image, calls[k - 1].auth)
            [] calls[k].op = "ImageRemove" ->
                  k > 1 /\ calls[k - 1] = Call("ImageHistory", calls[k].image, <<>>)
            [] OTHER -> FALSE
    /\ LoopOver =>
          /\ \A img \in DOMAIN dockerImages :
                OpsOf(img) = <<"ImagePull", "ImageHistory", "ImageRemove">>
          /\ \A k \in 1..Len(calls) : calls[k].image \in DOMAIN dockerImages

\* a run over three images has ended without error
C4_Witness ==
    /\ runPc = "done"
    /\ Cardinality(DOMAIN dockerImages) = Cardinality({ImgEuWest1, ImgNginx, ImgRedis})
    /\ Len(calls) > Cardinality(DOMAIN dockerImages)

---------------------------------------------------------------------------
(* C5 *)

\* C5: when the run has returned, with or without an error, a removal was
\* issued for every image whose pull succeeded.
C5_EveryPulledImageRemoved ==
    runPc \in {"done", "error"} =>
        \A img \in DOMAIN stage :
            stage[img] \in {"Inspecting", "Cleaning", "Done"} =>
                \E k \in 1..Len(calls) : calls[k] = Call("ImageRemove", img, <<>>)

---------------------------------------------------------------------------
(* C6 *)

\* C6 as claimed: the collection never holds a match for an image whose
\* cleanup failed, and holds every matched image whose cleanup succeeded.
C6_CollectionAtomicWithCleanup ==
    \A img \in DOMAIN dockerImages :
        /\ CleanupFailed(img) => ~InCollection(img)
        /\ (stage[img] = "Done" /\ Matched(img)) => InCollection(img)

\* C6 as amended: the match report never holds a line for an image whose
\* cleanup failed or has not succeeded (a failed cleanup leaves the match in
\* the collection and ends the run before either report is written), and the
\* collection holds every matched image whose cleanup succeeded.
C6_ReportAtomicWithCleanup ==
    /\ \A img \in DOMAIN dockerImages :
          /\ CleanupFailed(img) =>
                (~InReport(img) /\ offendingFile = NoFile /\ nonECRFile = NoFile)
          /\ InReport(img) => stage[img] = "Done"
          /\ (stage[img] = "Done" /\ Matched(img)) => InCollection(img)
    /\ \A i \in 1..Len(offendingFile.lines) :
          offendingFile.lines[i].imageRef \in DOMAIN dockerImages

\* the cleanup of a matched image failed while its match is in the collection
C6_Witness ==
    /\ runErr = ErrCleanup
    /\ Matched(image)
    /\ InCollection(image)

---------------------------------------------------------------------------
(* C7 *)

PrivateFamily(img) == Contains(img, AmazonDomain)

MatchingRegions(img) == {r \in Range(ecrRegions) : Contains(img, RegionHost(r))}

\* pullImage on a private-family reference no configured region matches
UnsupportedRegionFails ==
    (pullPc = "select" /\ pullPc' # "select" /\ PrivateFamily(image)
        /\ MatchingRegions(image) = {}) =>
        (runErr' = ErrRegion /\ runPc' = "error" /\ calls' = calls)

\* C7: a pull request for a reference of the private-registry family carries
\* the credential of a configured region whose host pattern occurs in the
\* reference and of no region whose pattern does not; with no such region
\* pullImage fails with the unsupported-region error and issues no request;
\* a request for any other reference carries no credential.
C7_CredentialSelection ==
    /\ [](\A k \in 1..Len(calls) :
             calls[k].op = "ImagePull" =>
                IF PrivateFamily(calls[k].image)
                THEN /\ \E r \in MatchingRegions(calls[k].image) :
                           calls[k].auth = ecrCredentials[r]
                     /\ \A r \in Range(ecrRegions) \ MatchingRegions(calls[k].image) :
                           calls[k].auth # ecrCredentials[r]
                ELSE calls[k].auth = <<>>)
    /\ [](runErr = ErrRegion =>
             /\ PrivateFamily(image)
             /\ MatchingRegions(image) = {}
             /\ OpsOf(image) = <<>>)
    /\ [][UnsupportedRegionFails]_vars

\* with two regions configured, a pull request carried the credential of the
\* second one for a reference whose only host pattern is that region's
C7_Witness ==
    /\ Len(ecrRegions) > 1
    /\ \E k \in 1..Len(calls) :
          /\ calls[k].op = "ImagePull"
          /\ MatchingRegions(calls[k].image) = {ecrRegions[Len(ecrRegions)]}
          /\ calls[k].auth = ecrCredentials[ecrRegions[Len(ecrRegions)]]

---------------------------------------------------------------------------
(* C8 *)

\* the containers the listing declares: <<i, j>> is container j of pod i
Declared ==
    UNION {{<<i, j>> : j \in 1..Len(pods[i].containers)} : i \in 1..Len(pods)}

ImageAt(p) == pods[p[1]].containers[p[2]].image

TupleAt(p) ==
    [podName |-> pods[p[1]].name,
     containerName |-> pods[p[1]].containers[p[2]].name,
     namespace |-> pods[p[1]].namespace]

\* container q is discovered before container p
Before(q, p) == q[1] < p[1] \/ (q[1] = p[1] /\ q[2] < p[2])

\* the place of container p among the containers declaring its image
Rank(p) ==
    1 + Cardinality({q \in Declared : ImageAt(q) = ImageAt(p) /\ Before(q, p)})

RECURSIVE TotalTuples(_)
TotalTuples(keys) ==
    IF keys = {}
    THEN 0
    ELSE LET key == CHOOSE k \in keys : TRUE
         IN  Len(dockerImages[key]) + TotalTuples(keys \ {key})

\* the scan has run
Scanned ==
    /\ runPc \notin {"parseFlags", "newConfig", "scan", "fatal"}
    /\ cfgErr = NoErr
    /\ runErr \notin {ErrConfig, ErrList}

\* C8: after the scan the image mapping has one key per distinct declared
\* image, the list of a key has one tuple per container declaring it, in
\* order of discovery, and the mapping holds as many tuples as there are
\* containers.
C8_ScanDeduplicates ==
    Scanned =>
        /\ DOMAIN dockerImages = {ImageAt(p) : p \in Declared}
        /\ \A img \in DOMAIN dockerImages :
              Len(dockerImages[img]) = Cardinality({p \in Declared : ImageAt(p) = img})
        /\ \A p \in Declared :
              /\ Rank(p) \in 1..Len(Lookup(dockerImages, ImageAt(p)))
              /\ dockerImages[ImageAt(p)][Rank(p)] = TupleAt(p)
        /\ TotalTuples(DOMAIN dockerImages) = Cardinality(Declared)

\* two pods share an image: one key, two tuples, the first pod's first
C8_Witness ==
    /\ Scanned
    /\ pods = <<PodApi, PodCache, PodWeb>>
    /\ dockerImages[ImgEuWest1] =
          <<[podName |-> "api", containerName |-> "app", namespace |-> "prod"],
            [podName |-> "web", containerName |-> "app", namespace |-> "prod"]>>

---------------------------------------------------------------------------
(* C9 *)

\* how often a keyword stands in the configured keyword list
Occurrences(keyword) ==
    Cardinality({k \in 1..Len(dockerImageKeyWords) : dockerImageKeyWords[k] = keyword})

\* checkImageHistoryForKeyWords has returned a result for the history
Inspected == runPc = "cleanup" /\ history = registry[image]

\* matchFound is true exactly when some layer holds some keyword, and only
\* keywords with a matching layer have an entry
MatchFoundAndEntries ==
    /\ result.matchFound <=>
          \E keyword \in Range(dockerImageKeyWords) : MatchingLayers(history, keyword) # {}
    /\ DOMAIN result.matchedKeywords =
          {keyword \in Range(dockerImageKeyWords) : MatchingLayers(history, keyword) # {}}

\* C9 as claimed: the count of a keyword is the number of layers whose
\* command text holds it, ignoring case.
C9_CountIsMatchingLayers ==
    Inspected =>
        /\ MatchFoundAndEntries
        /\ \A keyword \in DOMAIN result.matchedKeywords :
              result.matchedKeywords[keyword] =
                  Cardinality(MatchingLayers(history, keyword))

\* C9 as amended: the count of a keyword is the number of layers whose
\* command text holds it, ignoring case, times the number of times the
\* keyword stands in the configured list.
C9_CountIsMatchingLayersPerOccurrence ==
    Inspected =>
        /\ MatchFoundAndEntries
        /\ \A keyword \in DOMAIN result.matchedKeywords :
              result.matchedKeywords[keyword] =
                  Cardinality(MatchingLayers(history, keyword)) * Occurrences(keyword)

\* three layers hold the one keyword, two of them in another case: count 3
C9_Witness ==
    /\ Inspected
    /\ dockerImageKeyWords = <<KwJdk>>
    /\ history = <<Layer(CmdGetJdk), Layer(CmdJdk14), Layer(CmdJdkTwice)>>
    /\ result.matchFound
    /\ result.matchedKeywords[KwJdk] = Len(history)

---------------------------------------------------------------------------
(* C10 *)

\* the match report was written to its end
ReportComplete ==
    /\ offendingFile.exists
    /\ \/ runPc \in {"outputNonECR", "done"}
       \/ nonECRFile.exists
       \/ runErr = ErrOpen

\* C10: every entry of the match collection has matchFound true, at least
\* one counted keyword, a reference that is a key of the image mapping and
\* that has a matching layer, and no reference has two entries; a complete
\* match report has one line per matched image, with every provenance tuple
\* of the image.
C10_OnlyMatchesCollectedAndReported ==
    /\ \A i \in 1..Len(offendingDockerImages) :
          /\ offendingDockerImages[i].matchFound
          /\ DOMAIN offendingDockerImages[i].matchedKeywords # {}
          /\ offendingDockerImages[i].imageRef \in DOMAIN dockerImages
          /\ Matched(offendingDockerImages[i].imageRef)
          /\ \A j \in 1..Len(offendingDockerImages) :
                offendingDockerImages[j].imageRef = offendingDockerImages[i].imageRef
                    => i = j
    /\ ReportComplete =>
          /\ Len(offendingFile.lines) =
                Cardinality({img \in DOMAIN dockerImages : Matched(img)})
          /\ \A img \in DOMAIN dockerImages : InReport(img) <=> Matched(img)
          /\ \A i \in 1..Len(offendingFile.lines) :
                LET line == offendingFile.lines[i]
                    details == dockerImages[line.imageRef]
                IN  /\ Len(line.groups) = Len(details)
                    /\ \A k \in 1..Len(details) :
                          /\ line.groups[k].podName = details[k].podName
                          /\ line.groups[k].containerName = details[k].containerName
                          /\ line.groups[k].namespace = details[k].namespace

\* a complete match report with a line for a matched image shared by two
\* pods and none for an image that was inspected without a match
C10_Witness ==
    /\ ReportComplete
    /\ \E i \in 1..Len(offendingFile.lines) : Len(offendingFile.lines[i].groups) > 1
    /\ \E img \in DOMAIN dockerImages :
          stage[img] = "Done" /\ ~Matched(img) /\ ~InReport(img)

---------------------------------------------------------------------------
(* C11 *)

\* the reference holds the three name parts "amazonaws", ".", "com" in a row
HoldsAmazonDomain(img) ==
    \E i \in 1..(Len(img) - 2) :
        img[i] = "amazonaws" /\ img[i + 1] = "." /\ img[i + 2] = "com"

\* the lines of the non-ECR report that carry a reference
NonECRLinesOf(img) ==
    {i \in 1..Len(nonECRFile.lines) : nonECRFile.lines[i].imageRef = img}

\* C11: when outputNonECRImages has returned without error the non-ECR report
\* exists, has exactly one line for every key of the image mapping that does
\* not hold "amazonaws.com", the line carrying the key as it is and every
\* provenance tuple of the key in order, and has no line for any other
\* reference; the file exists even when no key qualifies.
C11_NonECRReportIsTheComplement ==
    runPc = "done" =>
        /\ nonECRFile.exists
        /\ \A img \in DOMAIN dockerImages :
              Cardinality(NonECRLinesOf(img)) = IF HoldsAmazonDomain(img) THEN 0 ELSE 1
        /\ \A i \in 1..Len(nonECRFile.lines) :
              /\ nonECRFile.lines[i].imageRef \in DOMAIN dockerImages
              /\ nonECRFile.lines[i].groups = dockerImages[nonECRFile.lines[i].imageRef]

\* a written non-ECR report that leaves out a private-registry key of the
\* mapping and has a line with two tuples for a public image
C11_Witness ==
    /\ runPc = "done"
    /\ \E img \in DOMAIN dockerImages : HoldsAmazonDomain(img) /\ NonECRLinesOf(img) = {}
    /\ \E i \in 1..Len(nonECRFile.lines) : Len(nonECRFile.lines[i].groups) > 1

---------------------------------------------------------------------------
(* C12 *)

Printed(notice) == \E i \in 1..Len(console) : console[i] = notice

\* outputOffendingImages has returned without error
OffendingPassReturned == runPc \in {"outputNonECR", "done"} \/ nonECRFile.exists

\* outputOffendingImages on an empty match collection
NoMatchNoFile ==
    (runPc = "outputOffending" /\ Len(offendingDockerImages) = 0) =>
        /\ runPc' \in {"outputOffending", "outputNonECR"}
        /\ runErr' = NoErr
        /\ offendingFile' = NoFile
        /\ runPc' = "outputNonECR" => Printed(NoticeNothingToOutput)'

\* C12: the match report exists only if the match collection holds a match;
\* once outputOffendingImages has returned without error the file exists and
\* has its lines exactly when the collection holds at least one match, and
\* with no match there is no file, the console notice was printed and the
\* operation returned no error.
C12_MatchReportOnlyWithMatches ==
    /\ [](offendingFile.exists => Len(offendingDockerImages) > 0)
    /\ [](OffendingPassReturned =>
             /\ offendingFile.exists <=> Len(offendingDockerImages) > 0
             /\ Len(offendingFile.lines) = Len(offendingDockerImages)
             /\ Printed(NoticeNothingToOutput) <=> Len(offendingDockerImages) = 0
             /\ Printed(NoticeOffendingWritten) <=> offendingFile.exists)
    /\ [][NoMatchNoFile]_vars

\* a run over images none of which matched has ended without error: no match
\* report, the notice on the console
C12_Witness ==
    /\ runPc = "done"
    /\ DOMAIN dockerImages # {}
    /\ offendingDockerImages = <<>>
    /\ offendingFile = NoFile
    /\ Printed(NoticeNothingToOutput)
    /\ runErr = NoErr

---------------------------------------------------------------------------
(* C13 *)

\* NewConfig has returned
ConfigReturned == runPc \notin {"parseFlags", "newConfig"} /\ runErr # ErrUsage
                      /\ runErr # ErrRegions

\* C13: when NewConfig has returned without error the credential map has one
\* entry per configured region, keyed by the region, and none else (no entry
\* for an empty region list); when a region's token could not be obtained or
\* decoded no credential is kept, the run has ended with the configuration
\* error, the cluster was not scanned and no image was pulled.
C13_CredentialsAllOrNothing ==
    /\ (ConfigReturned /\ cfgErr = NoErr) =>
          /\ DOMAIN ecrCredentials = Range(ecrRegions)
          /\ \A r \in DOMAIN ecrCredentials : ecrCredentials[r] = Credential(r)
          /\ requested = ecrRegions
    /\ cfgErr \in RegionErrors =>
          /\ ecrCredentials = EmptyMap
          /\ runPc = "fatal"
          /\ runErr = ErrConfig
          /\ dockerImages = EmptyMap
          /\ calls = <<>>

---------------------------------------------------------------------------
(* C14 *)

\* the value of a flag is missing
Missing(value) == value = <<>>

\* the ecrRegions flag, read as region codes separated by commas, lists only
\* allowed regions: a listed region at every odd place, a comma at every even
\* place, and no comma at the end
AllowedRegionList(flag) ==
    /\ Len(flag) % 2 = 1
    /\ \A i \in 1..Len(flag) :
          IF i % 2 = 1
          THEN \E k \in 1..Len(AllAWSRegions) : AllAWSRegions[k] = flag[i]
          ELSE flag[i] = Comma

\* the command line does not pass the pre-flight validation of the cmd program
BadCommandLine ==
    \/ Missing(flags.clusterK8sContextName)
    \/ Missing(flags.imagesAccountAWSProfileName)
    \/ Missing(flags.dockerImageKeyWordsFlag)
    \/ ~Missing(flags.ecrRegionsFlag) /\ ~AllowedRegionList(flags.ecrRegionsFlag)

\* region lists of up to two entries: allowed codes, an unknown code and the
\* empty string
SampleRegionLists ==
    LET codes == {"eu-west-1", "us-west-2", "mars-1", ""}
    IN  {<<>>} \cup {<<a>> : a \in codes} \cup {<<a, b>> : a \in codes, b \in codes}

\* ValidateAWSRegions is true exactly when every entry is an allowed region
ValidateIsMembership ==
    \A list \in SampleRegionLists :
        ValidateAWSRegions(list) <=>
            \A i \in 1..Len(list) : \E k \in 1..Len(AllAWSRegions) :
                AllAWSRegions[k] = list[i]

\* no credential was requested, the cluster was not queried, no image pulled
NothingStarted ==
    /\ requested = <<>>
    /\ ecrCredentials = EmptyMap
    /\ cfgErr = NoErr
    /\ dockerImages = EmptyMap
    /\ calls = <<>>

\* C14: parseFlags of the cmd program ends the run fatally exactly when the
\* context, the profile or the keyword list is missing or the ecrRegions flag
\* is given with an entry that is not an allowed region (ValidateAWSRegions is
\* true exactly when every entry is in AllAWSRegions, true for no entry); on
\* such a command line no credential is ever requested, the cluster is never
\* queried and no image is pulled, and nothing follows the fatal exit.
C14_PreflightValidation ==
    /\ [](program = "cmd" =>
             /\ ValidateIsMembership
             /\ runPc = "parseFlags" => NothingStarted
             /\ (runPc # "parseFlags" /\ BadCommandLine) =>
                    (runPc = "fatal" /\ runErr \in {ErrUsage, ErrRegions} /\ NothingStarted)
             /\ (runPc # "parseFlags" /\ ~BadCommandLine) =>
                    /\ runErr \notin {ErrUsage, ErrRegions}
                    /\ ValidateAWSRegions(ecrRegions)
                    /\ \A i \in 1..Len(ecrRegions) : ecrRegions[i] \in Range(AllAWSRegions)
                    /\ Join([i \in 1..Len(ecrRegions) |-> <<ecrRegions[i]>>], Comma)
                           = flags.ecrRegionsFlag)
    /\ [][NothingAfterTheEnd]_vars

\* the run has exited on a region list whose first entry is allowed and whose
\* second is not
C14_Witness ==
    /\ program = "cmd"
    /\ runPc = "fatal"
    /\ runErr = ErrRegions
    /\ flags.ecrRegionsFlag = <<"eu-west-1", Comma, "mars-1">>
    /\ NothingStarted

---------------------------------------------------------------------------
(* C15 *)

\* a report pass has started
Reporting ==
    \/ runPc \in {"outputOffending", "outputNonECR", "done"}
    \/ runErr \in {ErrOpen, ErrWrite}
    \/ offendingFile.exists
    \/ nonECRFile.exists
    \/ console # <<>>

\* outputOffendingImages has returned an error
OffendingPassFailed == runErr \in {ErrOpen, ErrWrite} /\ console = <<>>

\* the report passes read the image mapping and the match collection only
ReportPassesReadOnly ==
    runPc \in {"outputOffending", "outputNonECR"} =>
        UNCHANGED <<dockerImages, offendingDockerImages, stage, calls>>

\* the match-report pass comes first and the non-ECR pass only after it has
\* returned without error
OffendingPassFirst ==
    /\ (runPc' = "outputNonECR" /\ runPc # "outputNonECR") =>
           (runPc = "outputOffending" /\ runErr' = NoErr)
    /\ nonECRFile' # nonECRFile => runPc = "outputNonECR"
    /\ offendingFile' # offendingFile => runPc = "outputOffending"
    /\ (runPc = "outputOffending" /\ runErr' # NoErr) =>
           (runPc' = "error" /\ nonECRFile' = NoFile)

\* C15: a report file is opened or written, or a report notice printed, only
\* when every key of the image mapping has been pulled, inspected and
\* removed; the two report passes change neither the image mapping nor the
\* match collection; the match-report pass runs first, and when it fails its
\* error ends the run with the non-ECR report never written.
C15_ReportsAfterAllProcessing ==
    /\ [](Reporting =>
             \A img \in DOMAIN dockerImages :
                 /\ stage[img] = "Done"
                 /\ OpsOf(img) = <<"ImagePull", "ImageHistory", "ImageRemove">>)
    /\ [](OffendingPassFailed => (runPc = "error" /\ nonECRFile = NoFile))
    /\ [][ReportPassesReadOnly]_vars
    /\ [][OffendingPassFirst]_vars
    /\ [][NothingAfterTheEnd]_vars

\* the match report broke off after its first line, over three processed
\* images: the run has ended and there is no non-ECR report
C15_Witness ==
    /\ OffendingPassFailed
    /\ runErr = ErrWrite
    /\ Len(offendingFile.lines) = 1
    /\ Len(offendingDockerImages) > 1
    /\ Cardinality(DOMAIN dockerImages) > Len(offendingDockerImages)
    /\ nonECRFile = NoFile

---------------------------------------------------------------------------
(* C16 *)

\* C16: whenever pullImage is about to read event.Status an event has been
\* decoded from the stream, so the pointer it reads through is not nil, also
\* when the stream ended before its first event; pullImage never crashes on
\* the read.
C16_StatusReadOnlyAfterDecode ==
    /\ pullPc = "check" => (delivered > 0 /\ event # Nil)
    /\ pullPc # "crashed"

---------------------------------------------------------------------------
(* C17 *)

\* every return of d.Decode, with an error or without, leads to the read of
\* event.Status
DecodeAlwaysInspected ==
    (pullPc = "decode" /\ pullPc' # "decode") => pullPc' = "check"

\* C17 as claimed: a decode error other than end-of-stream does not make
\* pullImage return before the status of the event is read.
C17_StatusReadAfterDecodeError == [][DecodeAlwaysInspected]_vars

\* d.Decode returns in one of two ways: an object was decoded or the stream
\* is at its end, and the status is read next; or it failed otherwise, and
\* pullImage returns the decode error with the event as it was
DecodeOutcomes ==
    (pullPc = "decode" /\ pullPc' # "decode") =>
        \/ /\ pullPc' = "check"
           /\ runPc' = "pull"
           /\ runErr' = NoErr
           /\ delivered' = delivered + 1 \/ streamClosed'
        \/ /\ pullPc' = "idle"
           /\ runPc' = "error"
           /\ runErr' = ErrDecode
           /\ event' = event
           /\ ~streamClosed'

\* C17 as amended: of the errors of d.Decode only end-of-stream is ignored,
\* and the status is read after it; any other decode error makes pullImage
\* return the decode error at once, the status is not read again and the image
\* is neither inspected nor removed.
C17_OnlyEndOfStreamIgnored ==
    /\ [][DecodeOutcomes]_vars
    /\ [][NothingAfterTheEnd]_vars
    /\ [](runErr = ErrDecode =>
             /\ runPc = "error"
             /\ pullPc = "idle"
             /\ stage[image] = "Pulling"
             /\ OpsOf(image) = <<"ImagePull">>)

\* the stream broke after one well-formed progress event that was not
\* terminal: pullImage returned the decode error
C17_Witness ==
    /\ runErr = ErrDecode
    /\ delivered > 0
    /\ event # Nil
    /\ ~sawTerminal
    /\ pullPc = "idle"

---------------------------------------------------------------------------
(* C18 *)

\* what a run is given: the cluster listing, the keywords and the histories.
\* The definitions below are functions of these alone.

DeclaredImages == {ImageAt(p) : p \in Declared}

\* the provenance tuples of an image, in order of discovery
TuplesOf(img) ==
    LET mine == {p \in Declared : ImageAt(p) = img}
    IN  [r \in 1..Cardinality(mine) |-> TupleAt(CHOOSE p \in mine : Rank(p) = r)]

MatchedKeywordsOf(img) ==
    {keyword \in Range(dockerImageKeyWords) :
        MatchingLayers(registry[img], keyword) # {}}

\* the match of an image: its reference and its count per keyword
MatchOf(img) ==
    [matchFound |-> TRUE,
     imageRef |-> img,
     matchedKeywords |->
         [keyword \in MatchedKeywordsOf(img) |->
             Cardinality(MatchingLayers(registry[img], keyword))
                 * Occurrences(keyword)]]

MatchedImages == {img \in DeclaredImages : MatchedKeywordsOf(img) # {}}

MatchLineOf(img) ==
    [imageRef |-> img,
     groups |-> [k \in 1..Len(TuplesOf(img)) |->
                    [podName |-> TuplesOf(img)[k].podName,
                     containerName |-> TuplesOf(img)[k].containerName,
                     namespace |-> TuplesOf(img)[k].namespace,
                     matchedKeywords |-> MatchOf(img).matchedKeywords]]]

PublicLineOf(img) == [imageRef |-> img, groups |-> TuplesOf(img)]

\* C18: a run in which every pull, history query, removal and write succeeded
\* ends with a set of recorded matches and a set of lines in each report that
\* are functions of the cluster listing, the keywords and the histories
\* alone: two such runs on the same inputs end with the same sets, in
\* whatever order each visited the images.
C18_OutcomeIndependentOfOrder ==
    runPc = "done" =>
        /\ Range(offendingDockerImages) = {MatchOf(img) : img \in MatchedImages}
        /\ Len(offendingDockerImages) = Cardinality(MatchedImages)
        /\ Range(offendingFile.lines) = {MatchLineOf(img) : img \in MatchedImages}
        /\ Range(nonECRFile.lines) =
               {PublicLineOf(img) : img \in {i \in DeclaredImages : ~HoldsAmazonDomain(i)}}

\* a run that has ended without error recorded its two matches in the order
\* opposite to the discovery of their images by the scan
C18_Witness ==
    /\ runPc = "done"
    /\ Len(offendingDockerImages) = 2
    /\ \E p, q \in Declared :
          /\ Before(p, q)
          /\ Rank(p) = 1
          /\ offendingDockerImages[1].imageRef = ImageAt(q)
          /\ offendingDockerImages[2].imageRef = ImageAt(p)

============================================================================
